---- MODULE Spec2Model ----
(***************************************************************************)
(* Tunes: a GTK control surface for the MPD music daemon (src/main.rs).    *)
(*                                                                         *)
(* The model covers the state-synchronisation engine: the listener thread  *)
(* blocked in `idle`, the UI callbacks, the bounded futures::mpsc channel  *)
(* that carries StateUpdateKind values, and the event loop spawned on the  *)
(* GTK main context which talks to MPD and mutates the widgets' models.    *)
(*                                                                         *)
(* The MPD daemon and the futures channel are the environment; the daemon  *)
(* is a small state machine (play state, current song, queue) that other   *)
(* clients may change at any time.                                         *)
(***************************************************************************)
EXTENDS Integers, Sequences, FiniteSets, TLC

(***************************************************************************)
(* Bounds of the model.                                                    *)
(***************************************************************************)
\* `mpsc::channel(1024)`: the buffer size, scaled down so that a channel
\* holding more than `buffer` messages is reachable.
ChannelBuffer == 1
\* Number of inputs from outside the event loop: UI callbacks run, returns
\* of the listener's `idle`, changes made to the daemon by other clients.
MaxInputs == 3
\* Longest play queue the daemon accepts (MPD's max_playlist_length).
MaxQueue == 2
\* Largest number of daemon calls one event's handling makes before the
\* connection is lost; every value above the handler's number of calls
\* means "the connection stays up".
MaxCalls == 6

(***************************************************************************)
(* Option<T> as a sequence of length 0 or 1.                               *)
(***************************************************************************)
None == <<>>
Some(x) == <<x>>
IsSome(o) == o # <<>>
UnwrapOr(o, d) == IF o = <<>> THEN d ELSE o[1]

Min(a, b) == IF a <= b THEN a ELSE b

(***************************************************************************)
(* The daemon's catalogue (mpd::song::Song values).  `art` says what       *)
(* `albumart` does for the song: "ok" returns a decodable image, "garbage" *)
(* returns bytes gdk_pixbuf cannot decode, "missing" makes the call fail.  *)
(* `words` are the texts an "any" search matches the song on.              *)
(***************************************************************************)
TextAb == <<"a", "b">>
TextAbc == <<"a", "b", "c">>
TextEb == <<"e_acute", "b">>
Texts == {TextAb, TextAbc, TextEb}

SongAqualung ==
    [file |-> "aqualung.flac", title |-> Some("Aqualung"),
     artist |-> Some("Jethro Tull"), album |-> Some("Aqualung"),
     art |-> "ok", words |-> {TextAbc}]
SongUntagged ==
    [file |-> "untagged.mp3", title |-> None, artist |-> None,
     album |-> None, art |-> "garbage", words |-> {TextAbc, TextEb}]
SongNoArt ==
    [file |-> "noart.ogg", title |-> Some("Demo"), artist |-> None,
     album |-> Some("Tape"), art |-> "missing", words |-> {TextEb}]
Catalog == <<SongAqualung, SongUntagged, SongNoArt>>
Songs == {Catalog[i] : i \in 1..Len(Catalog)}
Files == {s.file : s \in Songs}
SongOfFile(f) == CHOOSE s \in Songs : s.file = f

PlayStates == {"Stop", "Pause", "Play"}
PlaybackStateChanges == {"Start", "Stop", "Pause", "SkipBackwards", "SkipForwards"}

(***************************************************************************)
(* String::len(): the length of the UTF-8 encoding, in bytes.              *)
(***************************************************************************)
Utf8Width(c) == IF c = "e_acute" THEN 2 ELSE 1
RECURSIVE StrLen(_)
StrLen(s) == IF s = <<>> THEN 0 ELSE Utf8Width(Head(s)) + StrLen(Tail(s))

(***************************************************************************)
(* The MPD daemon seen through mpd::Client.  A daemon state is a record    *)
(* [state, song, queue]: the play state, the 1-based queue position of the *)
(* current song (0: none) and the queue as a sequence of file names.       *)
(***************************************************************************)
CurrentSong(d) == IF d.song = 0 THEN None ELSE Some(SongOfFile(d.queue[d.song]))
QueueSongs(d) == [i \in 1..Len(d.queue) |-> SongOfFile(d.queue[i])]
\* `search` with Term::Any: the catalogue's songs that match, in catalogue order.
SearchSongs(text) == SelectSeq(Catalog, LAMBDA s : text \in s.words)

RemoveAt(q, pos) == SubSeq(q, 1, pos - 1) \o SubSeq(q, pos + 1, Len(q))

\* delete(index): index is 0-based; the daemon rejects a position past the end.
DeleteAccepted(d, index) == index < Len(d.queue)
AfterDelete(d, index) ==
    LET pos == index + 1 IN
    [state |-> IF d.song = pos THEN "Stop" ELSE d.state,
     song  |-> IF d.song = pos THEN 0 ELSE IF d.song > pos THEN d.song - 1 ELSE d.song,
     queue |-> RemoveAt(d.queue, pos)]

\* push_str(filename): appends; the daemon rejects it when the queue is full.
PushAccepted(d, file) == file \in Files /\ Len(d.queue) < MaxQueue
AfterPush(d, file) == [d EXCEPT !.queue = Append(d.queue, file)]

\* The five transport commands, named as the Client's methods.
TransportAccepted(d, cmd) ==
    IF cmd \in {"prev", "next"} THEN d.state # "Stop" ELSE TRUE
AfterTransport(d, cmd) ==
    CASE cmd = "play" ->
           IF d.queue = <<>> THEN d
           ELSE [d EXCEPT !.state = "Play", !.song = IF d.song = 0 THEN 1 ELSE d.song]
      [] cmd = "stop" -> [d EXCEPT !.state = "Stop"]
      [] cmd = "pause" -> [d EXCEPT !.state = IF d.state = "Play" THEN "Pause" ELSE d.state]
      [] cmd = "next" ->
           IF d.song < Len(d.queue) THEN [d EXCEPT !.song = d.song + 1]
           ELSE [d EXCEPT !.state = "Stop", !.song = 0]
      [] cmd = "prev" -> [d EXCEPT !.song = IF d.song > 1 THEN d.song - 1 ELSE d.song]

\* The Player subsystem: what `idle player` reports a change of.
PlayerChanged(d, e) == d.state # e.state \/ CurrentSong(d) # CurrentSong(e)

\* A call the event loop made: the command, its text argument (a query or a
\* file name), its numeric argument, whether it returned Ok, and the files
\* of the songs it returned.
\* Client::connect in the listener thread and in the event loop: each
\* connection is a local variable of the context that opens it.
ListenerConn == "listener thread conn"

\* An event loop that borrows the listener's connection.
SharedConn == ListenerConn

LoopConn == "event loop conn"

Call(op, text, idx, ok, res) ==
    [op |-> op, text |-> text, idx |-> idx, ok |-> ok, res |-> res,
     conn |-> LoopConn]
FilesOf(songs) == [i \in 1..Len(songs) |-> songs[i].file]

(***************************************************************************)
(* The widgets' data.                                                      *)
(***************************************************************************)
\* SongObject::new: a glib object with the song's properties; `index` is
\* the Cell<u32>'s default until set_index is called.
SongObjectNew(song) ==
    [filename |-> song.file,
     title    |-> UnwrapOr(song.title, "[Untitled]"),
     artist   |-> UnwrapOr(song.artist, "[No Artist]"),
     album    |-> UnwrapOr(song.album, "[Untitled]"),
     index    |-> 0]
SetIndex(object, idx) == [object EXCEPT !.index = idx]

\* A remove_all that leaves the first row in place.
RemoveAllButFirst(model) == SubSeq(model, 1, Min(1, Len(model)))

\* A remove_all that removes nothing: the old rows stay.
RemoveNothing(model) == model

\* gio::ListStore::remove_all()
RemoveAll(model) == <<>>

\* gio::ListStore::insert(position, item): position counts from 0.
ListStoreInsert(model, position, item) ==
    SubSeq(model, 1, position) \o <<item>> \o SubSeq(model, position + 1, Len(model))

\* The state descriptor of header_title's match.
StateDescriptor(state) ==
    CASE state = "Stop" -> "[STOPPED]"
      [] state = "Pause" -> "[PAUSED]"
      [] state = "Play" -> "[PLAYING]"

\* A title that names the artist before the song.
FormatTitleArtistFirst(descriptor, title, artist) == <<descriptor, artist, title>>

\* format!("{} {} - {}", ..) kept as its three arguments.
FormatTitle(descriptor, title, artist) == <<descriptor, title, artist>>
NoSongTitle == <<"Tunes: No Song">>

\* header_title(conn), run as calls k0+1, k0+2 of an event's handling of
\* which the first n succeed: [ok, title, calls].
HeaderTitle(d, n, k0) ==
    LET ok1 == k0 + 1 <= n
        ok2 == k0 + 2 <= n
        c1 == Call("status", <<>>, 0, ok1, <<>>)
        c2 == Call("currentsong", <<>>, 0, ok2, <<>>)
        song == CurrentSong(d)
    IN  IF ~ok1 THEN [ok |-> FALSE, title |-> <<>>, calls |-> <<c1>>]
        ELSE IF ~ok2 THEN [ok |-> FALSE, title |-> <<>>, calls |-> <<c1, c2>>]
        ELSE [ok |-> TRUE,
              title |-> IF IsSome(song)
                        THEN FormatTitle(StateDescriptor(d.state),
                                         UnwrapOr(song[1].title, "Untitled"),
                                         UnwrapOr(song[1].artist, "Untitled"))
                        ELSE NoSongTitle,
              calls |-> <<c1, c2>>]

\* The size the album art is scaled to: window is the container's
\* Option<gdk::Window>, here its width and height.
DefaultArtSize == 128

\* A size taken from the window's width alone.
AlbumArtSizeOfWidth(win) == IF IsSome(win) THEN win[1].w \div 2 ELSE DefaultArtSize

AlbumArtSize(win) ==
    Min(IF IsSome(win) THEN win[1].w \div 2 ELSE DefaultArtSize,
        IF IsSome(win) THEN win[1].h \div 2 ELSE DefaultArtSize)

\* Pixbuf::from_stream(..).ok().and_then(|x| x.scale_simple(size, size, ..))
ScaledPixbuf(song, size) ==
    IF song.art = "ok" /\ size > 0
    THEN Some([image |-> song.file, width |-> size, height |-> size])
    ELSE None

\* SongInfo::update_album_art: [ok, art, calls].
UpdateAlbumArt(d, n, k0, win, art) ==
    LET ok1 == k0 + 1 <= n
        c1 == Call("currentsong", <<>>, 0, ok1, <<>>)
        song == CurrentSong(d)
    IN  IF ~ok1 THEN [ok |-> FALSE, art |-> art, calls |-> <<c1>>]
        ELSE IF ~IsSome(song) THEN [ok |-> TRUE, art |-> art, calls |-> <<c1>>]
        ELSE LET ok2 == k0 + 2 <= n /\ song[1].art # "missing"
                 c2 == Call("albumart", <<song[1].file>>, 0, ok2, <<>>)
             IN  IF ~ok2 THEN [ok |-> FALSE, art |-> art, calls |-> <<c1, c2>>]
                 ELSE [ok |-> TRUE,
                       art |-> ScaledPixbuf(song[1], AlbumArtSize(win)),
                       calls |-> <<c1, c2>>]

\* The text SongInfo::update gives the label: format!("{}\n{} - {}", ..).
SongText(song) ==
    <<UnwrapOr(song.title, "[Unknown]"),
      UnwrapOr(song.artist, "[Unknown]"),
      UnwrapOr(song.album, "[Unknown]")>>

\* The loop of SongInfo::update over conn.queue(): songs i.. are inserted
\* at their own index, with the index set on the object.
\* The queue loop written like the search loop: every row goes to position 0.
RECURSIVE InsertQueueAtFront(_, _, _)
InsertQueueAtFront(model, songs, i) ==
    IF i >= Len(songs) THEN model
    ELSE InsertQueueAtFront(
             ListStoreInsert(model, 0, SetIndex(SongObjectNew(songs[i + 1]), i)),
             songs, i + 1)

RECURSIVE InsertQueue(_, _, _)
InsertQueue(model, songs, i) ==
    IF i >= Len(songs) THEN model
    ELSE InsertQueue(ListStoreInsert(model, i, SetIndex(SongObjectNew(songs[i + 1]), i)),
                     songs, i + 1)

\* SongInfo::update: [ok, art, text, model, calls].
Update(d, n, k0, win, art, text, model) ==
    LET a == UpdateAlbumArt(d, n, k0, win, art)
        k1 == k0 + Len(a.calls)
        ok1 == k1 + 1 <= n
        c1 == Call("currentsong", <<>>, 0, ok1, <<>>)
        song == CurrentSong(d)
        text1 == IF IsSome(song) THEN SongText(song[1]) ELSE text
        ok2 == k1 + 2 <= n
        c2 == Call("queue", <<>>, 0, ok2, IF ok2 THEN d.queue ELSE <<>>)
    IN  IF ~a.ok
        THEN [ok |-> FALSE, art |-> a.art, text |-> text, model |-> model,
              calls |-> a.calls]
        ELSE IF ~ok1
        THEN [ok |-> FALSE, art |-> a.art, text |-> text, model |-> model,
              calls |-> a.calls \o <<c1>>]
        ELSE IF ~ok2
        THEN [ok |-> FALSE, art |-> a.art, text |-> text1, model |-> RemoveAll(model),
              calls |-> a.calls \o <<c1, c2>>]
        ELSE [ok |-> TRUE, art |-> a.art, text |-> text1,
              model |-> InsertQueue(RemoveAll(model), QueueSongs(d), 0),
              calls |-> a.calls \o <<c1, c2>>]

\* A search loop that appends every song after the rows already there.
RECURSIVE InsertFoundAtEnd(_, _)
InsertFoundAtEnd(model, songs) ==
    IF songs = <<>> THEN model
    ELSE InsertFoundAtEnd(ListStoreInsert(model, Len(model), SongObjectNew(Head(songs))),
                          Tail(songs))

\* The loop over the search result: every song is inserted at position 0.
RECURSIVE InsertFound(_, _)
InsertFound(model, songs) ==
    IF songs = <<>> THEN model
    ELSE InsertFound(ListStoreInsert(model, 0, SongObjectNew(Head(songs))), Tail(songs))

\* The result cap of the search window (0, 65535).
SearchCap == 65535
Truncate(songs, cap) == SubSeq(songs, 1, Min(Len(songs), cap))

(***************************************************************************)
(* The arms of the event loop's match, as functions of the daemon state d, *)
(* the number n of daemon calls that succeed before the connection is      *)
(* lost, the widgets' data v = [title, text, art, queue, search], the      *)
(* window and the event.  Each gives [ok, calls, mpd, v]; ok = FALSE is a  *)
(* panic (an `expect` or `unwrap` on an Err).                              *)
(***************************************************************************)
Outcome(ok, calls, d, v) == [ok |-> ok, calls |-> calls, mpd |-> d, v |-> v]

\* The MpdEvent arm without the `if let Ok(title)`: update runs whatever
\* header_title returned.
ArmMpdEventUnconditional(d, n, v, win, ev) ==
    LET h == HeaderTitle(d, n, 0)
        u == Update(d, n, Len(h.calls), win, v.art, v.text, v.queue)
    IN  Outcome(u.ok, h.calls \o u.calls, d,
                [v EXCEPT !.title = IF h.ok THEN h.title ELSE v.title,
                          !.art = u.art, !.text = u.text, !.queue = u.model])

\* StateUpdateKind::MpdEvent
ArmMpdEvent(d, n, v, win, ev) ==
    LET h == HeaderTitle(d, n, 0) IN
    IF h.ok
    THEN LET u == Update(d, n, Len(h.calls), win, v.art, v.text, v.queue) IN
         Outcome(u.ok, h.calls \o u.calls, d,
                 [v EXCEPT !.title = h.title, !.art = u.art, !.text = u.text,
                           !.queue = u.model])
    ELSE Outcome(TRUE, h.calls, d, v)

\* The WindowResizeEvent arm calling update instead of update_album_art.
ArmWindowResizeFullUpdate(d, n, v, win, ev) ==
    LET u == Update(d, n, 0, win, v.art, v.text, v.queue) IN
    Outcome(u.ok, u.calls, d,
            [v EXCEPT !.art = u.art, !.text = u.text, !.queue = u.model])

\* StateUpdateKind::WindowResizeEvent
ArmWindowResizeEvent(d, n, v, win, ev) ==
    LET a == UpdateAlbumArt(d, n, 0, win, v.art) IN
    Outcome(a.ok, a.calls, d, [v EXCEPT !.art = a.art])

\* The length test off by one: `< 2`.
QueryTooShortOffByOne(query_string) == StrLen(query_string) < 2

\* The test that makes the QueryUpdateEvent arm `continue`.
QueryTooShort(query_string) == StrLen(query_string) <= 2

\* A QueryUpdateEvent arm that clears the results for a text too short to
\* search for.
ArmQueryUpdateClearsOnShort(d, n, v, win, ev) ==
    IF QueryTooShort(ev.text)
    THEN Outcome(TRUE, <<>>, d, [v EXCEPT !.search = RemoveAll(v.search)])
    ELSE LET ok1 == 1 <= n
             songs == Truncate(SearchSongs(ev.text), SearchCap)
             c1 == Call("search", ev.text, 0, ok1, IF ok1 THEN FilesOf(songs) ELSE <<>>)
         IN  IF ok1
             THEN Outcome(TRUE, <<c1>>, d,
                          [v EXCEPT !.search = InsertFound(RemoveAll(v.search), songs)])
             ELSE Outcome(FALSE, <<c1>>, d, [v EXCEPT !.search = RemoveAll(v.search)])

\* StateUpdateKind::QueryUpdateEvent(query_string)
ArmQueryUpdateEvent(d, n, v, win, ev) ==
    IF QueryTooShort(ev.text) THEN Outcome(TRUE, <<>>, d, v)
    ELSE LET ok1 == 1 <= n
             songs == Truncate(SearchSongs(ev.text), SearchCap)
             c1 == Call("search", ev.text, 0, ok1, IF ok1 THEN FilesOf(songs) ELSE <<>>)
         IN  IF ok1
             THEN Outcome(TRUE, <<c1>>, d,
                          [v EXCEPT !.search = InsertFound(RemoveAll(v.search), songs)])
             ELSE Outcome(FALSE, <<c1>>, d, [v EXCEPT !.search = RemoveAll(v.search)])

\* A QueueDeleteRequest arm that takes the row out of the queue model as
\* soon as the daemon has accepted the delete.
ArmQueueDeleteAndUnlist(d, n, v, win, ev) ==
    LET ok1 == 1 <= n /\ DeleteAccepted(d, ev.index)
        c1 == Call("delete", <<>>, ev.index, ok1, <<>>)
    IN  Outcome(ok1, <<c1>>, IF ok1 THEN AfterDelete(d, ev.index) ELSE d,
                IF ok1 /\ ev.index < Len(v.queue)
                THEN [v EXCEPT !.queue = RemoveAt(v.queue, ev.index + 1)]
                ELSE v)

\* StateUpdateKind::QueueDeleteRequest(index)
ArmQueueDeleteRequest(d, n, v, win, ev) ==
    LET ok1 == 1 <= n /\ DeleteAccepted(d, ev.index)
        c1 == Call("delete", <<>>, ev.index, ok1, <<>>)
    IN  Outcome(ok1, <<c1>>, IF ok1 THEN AfterDelete(d, ev.index) ELSE d, v)

\* StateUpdateKind::QueueAddRequest(filename)
ArmQueueAddRequest(d, n, v, win, ev) ==
    LET ok1 == 1 <= n /\ PushAccepted(d, ev.file)
        c1 == Call("push_str", <<ev.file>>, 0, ok1, <<>>)
    IN  Outcome(ok1, <<c1>>, IF ok1 THEN AfterPush(d, ev.file) ELSE d, v)

\* A dispatch whose two skip arms are exchanged.
TransportOfSkipsSwapped(action) ==
    CASE action = "SkipBackwards" -> "next"
      [] action = "SkipForwards" -> "prev"
      [] action = "Start" -> "play"
      [] action = "Stop" -> "stop"
      [] action = "Pause" -> "pause"

\* dispatch_playback_state_change: the Client method each action calls.
TransportOf(action) ==
    CASE action = "SkipBackwards" -> "prev"
      [] action = "SkipForwards" -> "next"
      [] action = "Start" -> "play"
      [] action = "Stop" -> "stop"
      [] action = "Pause" -> "pause"

\* StateUpdateKind::PlaybackStateChange(action)
ArmPlaybackStateChange(d, n, v, win, ev) ==
    LET cmd == TransportOf(ev.action)
        ok1 == 1 <= n /\ TransportAccepted(d, cmd)
        c1 == Call(cmd, <<>>, 0, ok1, <<>>)
    IN  Outcome(ok1, <<c1>>, IF ok1 THEN AfterTransport(d, cmd) ELSE d, v)

(***************************************************************************)
(* The channel.  A Sender clone may send while it is not parked; a send    *)
(* that leaves more than `buffer` messages queued parks the clone.         *)
(***************************************************************************)
\* A try_send that reports Ok for a parked clone and drops the message.
TrySendDropping(parked, ch, msg) ==
    IF parked THEN [ok |-> TRUE, channel |-> ch, parked |-> parked]
    ELSE [ok |-> TRUE, channel |-> Append(ch, msg),
          parked |-> Len(ch) + 1 > ChannelBuffer]

TrySend(parked, ch, msg) ==
    IF parked THEN [ok |-> FALSE, channel |-> ch, parked |-> parked]
    ELSE [ok |-> TRUE, channel |-> Append(ch, msg),
          parked |-> Len(ch) + 1 > ChannelBuffer]

\* A receiver that takes the newest message.
DequeueNewest(ch) == [msg |-> ch[Len(ch)], rest |-> SubSeq(ch, 1, Len(ch) - 1)]

\* receiver.next(): the message the receiver takes, and what stays queued.
Dequeue(ch) == [msg |-> Head(ch), rest |-> Tail(ch)]

(***************************************************************************)
(* State.                                                                  *)
(***************************************************************************)
VARIABLES
    mpd,          \* the daemon: [state, song, queue]
    idlePending,  \* a Player change the listener's `idle` has not reported yet
    inputs,       \* number of inputs so far (see MaxInputs)
    listener,     \* the listener thread: "waiting" or "exited"
    waits,        \* the listener's conn.wait returns so far: [ok, err], and
                  \* the connection it waits on
    channel,      \* the messages queued in the mpsc channel
    phase,        \* the event loop: "idle" (awaiting next()) or "handling"
    cur,          \* the event the loop received last
    calls,        \* the daemon calls made while handling cur
    crashed,      \* "none", or the context whose panic ended the process
    headerTitle,  \* header_bar's title
    songText,     \* song_info.song_text
    albumArt,     \* song_info.album_art's pixbuf
    queueModel,   \* song_info.model
    searchModel,  \* query_info.model
    window,       \* the container's window: its size
    attempts,     \* per producer: try_send calls made
    sent,         \* per producer: try_send calls that returned Ok
    taken         \* per producer: messages the event loop has received

vars == <<mpd, idlePending, inputs, listener, waits, channel, phase, cur, calls,
          crashed, headerTitle, songText, albumArt, queueModel,
          searchModel, window, attempts, sent, taken>>

viewVars == <<headerTitle, songText, albumArt, queueModel, searchModel>>
daemonVars == <<mpd, idlePending>>
loopVars == <<phase, cur, calls>>
listenerVars == <<listener, waits>>
ghostVars == <<attempts, sent, taken>>

Producers == {"listener", "ui"}

View == [title |-> headerTitle, text |-> songText, art |-> albumArt,
         queue |-> queueModel, search |-> searchModel]

\* A StateUpdateKind value with its payload; prod and seq record which
\* producer sent it and as which of its messages.
Event(kind, text, index, file, action) ==
    [kind |-> kind, text |-> text, index |-> index, file |-> file,
     action |-> action, prod |-> "", seq |-> 0]
Stamp(ev, prod, seq) == [ev EXCEPT !.prod = prod, !.seq = seq]
NoEvent == Event("", <<>>, 0, "", "")

MpdEvent == Event("MpdEvent", <<>>, 0, "", "")
WindowResizeEvent == Event("WindowResizeEvent", <<>>, 0, "", "")
QueryUpdateEvent(text) == Event("QueryUpdateEvent", text, 0, "", "")
QueueAddRequest(file) == Event("QueueAddRequest", <<>>, 0, file, "")
QueueDeleteRequest(index) == Event("QueueDeleteRequest", <<>>, index, "", "")
PlaybackStateChange(action) == Event("PlaybackStateChange", <<>>, 0, "", action)

(***************************************************************************)
(* Initial state: the `activate` handler has run.  The window has its      *)
(* default size, the title comes from header_title and the widgets from    *)
(* song_info.update, both on the setup connection; neither failed.         *)
(***************************************************************************)
DefaultWidth == 350
DefaultHeight == 70
DefaultWindow == Some([w |-> DefaultWidth, h |-> DefaultHeight])

InitDaemons ==
    {[state |-> "Stop", song |-> 0, queue |-> <<>>],
     [state |-> "Play", song |-> 1, queue |-> <<"aqualung.flac">>],
     [state |-> "Pause", song |-> 1, queue |-> <<"untagged.mp3", "aqualung.flac">>]}

EmptyView == [title |-> <<>>, text |-> <<>>, art |-> None, queue |-> <<>>,
              search |-> <<>>]
StartupViewIn(d, win) ==
    LET h == HeaderTitle(d, MaxCalls, 0)
        u == Update(d, MaxCalls, 0, win, None, <<>>, <<>>)
    IN  [EmptyView EXCEPT !.title = h.title, !.art = u.art, !.text = u.text,
                          !.queue = u.model]
StartupView(d) == StartupViewIn(d, DefaultWindow)

Init ==
    /\ mpd \in InitDaemons
    /\ idlePending = FALSE
    /\ inputs = 0
    /\ listener = "waiting"
    /\ waits = [ok |-> 0, err |-> 0, conn |-> ListenerConn]
    /\ channel = <<>>
    /\ phase = "idle"
    /\ cur = NoEvent
    /\ calls = <<>>
    /\ crashed = "none"
    /\ headerTitle = StartupView(mpd).title
    /\ songText = StartupView(mpd).text
    /\ albumArt = StartupView(mpd).art
    /\ queueModel = StartupView(mpd).queue
    /\ searchModel = <<>>
    /\ window = DefaultWindow
    /\ attempts = [p \in Producers |-> 0]
    /\ sent = [p \in Producers |-> 0]
    /\ taken = [p \in Producers |-> 0]

(***************************************************************************)
(* Producers.                                                              *)
(***************************************************************************)
\* sender.clone() followed by one try_send(..).expect(..) in a UI callback.
UiSend(ev) ==
    LET r == TrySend(FALSE, channel, Stamp(ev, "ui", sent["ui"] + 1)) IN
    /\ attempts' = [attempts EXCEPT !["ui"] = @ + 1]
    /\ channel' = r.channel
    /\ sent' = [sent EXCEPT !["ui"] = @ + (IF r.ok THEN 1 ELSE 0)]
    /\ crashed' = IF r.ok THEN crashed ELSE "ui"

\* sender.clone() followed by two try_send(..).expect(..) on that clone.
UiSendTwo(ev1, ev2) ==
    LET r1 == TrySend(FALSE, channel, Stamp(ev1, "ui", sent["ui"] + 1))
        r2 == TrySend(r1.parked, r1.channel, Stamp(ev2, "ui", sent["ui"] + 2))
    IN  IF ~r1.ok
        THEN /\ attempts' = [attempts EXCEPT !["ui"] = @ + 1]
             /\ channel' = r1.channel
             /\ sent' = sent
             /\ crashed' = "ui"
        ELSE /\ attempts' = [attempts EXCEPT !["ui"] = @ + 2]
             /\ channel' = r2.channel
             /\ sent' = [sent EXCEPT !["ui"] = @ + (IF r2.ok THEN 2 ELSE 1)]
             /\ crashed' = IF r2.ok THEN crashed ELSE "ui"

\* The UI callbacks run on the main thread, between two polls of the event
\* loop's future.
UiTurn ==
    /\ crashed = "none"
    /\ phase = "idle"
    /\ inputs < MaxInputs
    /\ inputs' = inputs + 1

WindowSizes == {[w |-> DefaultWidth, h |-> DefaultHeight], [w |-> 301, h |-> 403]}

\* window.connect_configure_event
ConfigureEvent ==
    /\ UiTurn
    /\ \E size \in WindowSizes : window' = Some(size)
    /\ UiSend(WindowResizeEvent)
    /\ UNCHANGED <<daemonVars, listenerVars, loopVars, viewVars, taken>>

\* query_input.connect_key_press_event
KeyPress ==
    /\ UiTurn
    /\ \E text \in Texts : UiSend(QueryUpdateEvent(text))
    /\ UNCHANGED <<daemonVars, listenerVars, loopVars, viewVars, window, taken>>

\* the five control_*.connect_clicked callbacks
ControlClicked ==
    /\ UiTurn
    /\ \E action \in PlaybackStateChanges : UiSend(PlaybackStateChange(action))
    /\ UNCHANGED <<daemonVars, listenerVars, loopVars, viewVars, window, taken>>

\* A remove callback that also takes the row out of the list store itself.
RemoveClickedOptimistic ==
    /\ UiTurn
    /\ \E i \in 1..Len(queueModel) :
          /\ UiSendTwo(QueueDeleteRequest(queueModel[i].index), MpdEvent)
          /\ queueModel' = [k \in 1..(Len(queueModel) - 1) |->
                               IF k < i THEN queueModel[k] ELSE queueModel[k + 1]]
    /\ UNCHANGED <<daemonVars, listenerVars, loopVars, headerTitle, songText,
                   albumArt, searchModel, window, taken>>

\* remove_individual_song.connect_clicked, on a row of the queue
RemoveClicked ==
    /\ UiTurn
    /\ \E i \in 1..Len(queueModel) :
          UiSendTwo(QueueDeleteRequest(queueModel[i].index), MpdEvent)
    /\ UNCHANGED <<daemonVars, listenerVars, loopVars, viewVars, window, taken>>

\* An add callback that leaves the refresh to the listener's next event.
AddClickedNoRefresh ==
    /\ UiTurn
    /\ \E i \in 1..Len(searchModel) : UiSend(QueueAddRequest(searchModel[i].filename))
    /\ UNCHANGED <<daemonVars, listenerVars, loopVars, viewVars, window, taken>>

\* add_individual_song.connect_clicked, on a row of the search results
AddClicked ==
    /\ UiTurn
    /\ \E i \in 1..Len(searchModel) :
          UiSendTwo(QueueAddRequest(searchModel[i].filename), MpdEvent)
    /\ UNCHANGED <<daemonVars, listenerVars, loopVars, viewVars, window, taken>>

\* A listener that goes back to wait whatever the last wait returned.
ListenerRetries(result) == "waiting"

\* `while let Ok(_subsystems) = conn.wait(..)`: the thread waits again
\* after an Ok and leaves the loop after an Err.
ListenerAfterWait(result) == IF result = "Ok" THEN "waiting" ELSE "exited"

\* The listener thread: conn.wait(&[Subsystem::Player]) returned Ok.
ListenerNotify ==
    LET r == TrySend(FALSE, channel, Stamp(MpdEvent, "listener", sent["listener"] + 1)) IN
    /\ crashed = "none"
    /\ listener = "waiting"
    /\ idlePending
    /\ inputs < MaxInputs
    /\ inputs' = inputs + 1
    /\ idlePending' = FALSE
    /\ attempts' = [attempts EXCEPT !["listener"] = @ + 1]
    /\ channel' = r.channel
    /\ sent' = [sent EXCEPT !["listener"] = @ + (IF r.ok THEN 1 ELSE 0)]
    /\ listener' = IF r.ok THEN ListenerAfterWait("Ok") ELSE "panicked"
    /\ waits' = [waits EXCEPT !.ok = @ + 1]
    /\ UNCHANGED <<mpd, loopVars, crashed, viewVars, window, taken>>

\* The listener thread: conn.wait(..) returned Err; the `while let` ends.
ListenerExit ==
    /\ crashed = "none"
    /\ listener = "waiting"
    /\ listener' = ListenerAfterWait("Err")
    /\ waits' = [waits EXCEPT !.err = @ + 1]
    /\ UNCHANGED <<daemonVars, inputs, channel, loopVars, crashed, viewVars, window,
                   ghostVars>>

(***************************************************************************)
(* Other clients of the daemon.                                            *)
(***************************************************************************)
OtherClient ==
    /\ crashed = "none"
    /\ inputs < MaxInputs
    /\ \E d \in {AfterTransport(mpd, "play"), AfterTransport(mpd, "stop")}
             \cup {AfterDelete(mpd, 0) : x \in {y \in {0} : DeleteAccepted(mpd, 0)}}
             \cup {AfterPush(mpd, f) : f \in {g \in {"noart.ogg"} : PushAccepted(mpd, g)}} :
          /\ d # mpd
          /\ mpd' = d
          /\ idlePending' = (idlePending \/ PlayerChanged(mpd, d))
    /\ inputs' = inputs + 1
    /\ UNCHANGED <<listenerVars, channel, loopVars, crashed, viewVars, window, ghostVars>>

(***************************************************************************)
(* The event loop on the main context.                                     *)
(***************************************************************************)
\* A loop that polls the receiver while an arm is still running.
AwaitingOrHandling == phase \in {"idle", "handling"}

\* The loop is at `receiver.next().await`: the body of the `while let` has
\* run to its end for the event before.
\* A receiver whose stream ends when the listener's Sender is dropped.
AwaitingWhileListenerLives == phase = "idle" /\ listener # "exited"

Awaiting == phase = "idle"

\* receiver.next().await returned Some(event_type).
Receive ==
    /\ crashed = "none"
    /\ Awaiting
    /\ channel # <<>>
    /\ LET d == Dequeue(channel) IN
          /\ cur' = d.msg
          /\ channel' = d.rest
          /\ taken' = [taken EXCEPT ![d.msg.prod] = @ + 1]
    /\ phase' = "handling"
    /\ calls' = <<>>
    /\ UNCHANGED <<daemonVars, inputs, listenerVars, crashed, viewVars, window,
                   attempts, sent>>

\* The body of the `while let`, for the event received: o is the arm's
\* outcome.
Apply(o) ==
    /\ mpd' = o.mpd
    /\ idlePending' = (idlePending \/ PlayerChanged(mpd, o.mpd))
    /\ calls' = o.calls
    /\ headerTitle' = o.v.title
    /\ songText' = o.v.text
    /\ albumArt' = o.v.art
    /\ queueModel' = o.v.queue
    /\ searchModel' = o.v.search
    /\ phase' = IF o.ok THEN "idle" ELSE "handling"
    /\ crashed' = IF o.ok THEN crashed ELSE "event_loop"
    /\ UNCHANGED <<inputs, listenerVars, channel, cur, window, ghostVars>>

Handling(kind) == crashed = "none" /\ phase = "handling" /\ cur.kind = kind
\* The number of daemon calls of one handling that do not fail for a reason
\* of the connection (a timeout, a reset); MaxCalls: none fails.
Survives == 0..MaxCalls

HandleMpdEvent ==
    /\ Handling("MpdEvent")
    /\ \E n \in Survives : Apply(ArmMpdEvent(mpd, n, View, window, cur))

HandleWindowResizeEvent ==
    /\ Handling("WindowResizeEvent")
    /\ \E n \in Survives : Apply(ArmWindowResizeEvent(mpd, n, View, window, cur))

HandleQueryUpdateEvent ==
    /\ Handling("QueryUpdateEvent")
    /\ \E n \in Survives : Apply(ArmQueryUpdateEvent(mpd, n, View, window, cur))

HandleQueueDeleteRequest ==
    /\ Handling("QueueDeleteRequest")
    /\ \E n \in Survives : Apply(ArmQueueDeleteRequest(mpd, n, View, window, cur))

HandleQueueAddRequest ==
    /\ Handling("QueueAddRequest")
    /\ \E n \in Survives : Apply(ArmQueueAddRequest(mpd, n, View, window, cur))

HandlePlaybackStateChange ==
    /\ Handling("PlaybackStateChange")
    /\ \E n \in Survives : Apply(ArmPlaybackStateChange(mpd, n, View, window, cur))

Next ==
    \/ ConfigureEvent
    \/ KeyPress
    \/ ControlClicked
    \/ RemoveClicked
    \/ AddClicked
    \/ ListenerNotify
    \/ ListenerExit
    \/ OtherClient
    \/ Receive
    \/ HandleMpdEvent
    \/ HandleWindowResizeEvent
    \/ HandleQueryUpdateEvent
    \/ HandleQueueDeleteRequest
    \/ HandleQueueAddRequest
    \/ HandlePlaybackStateChange

Spec == Init /\ [][Next]_vars

(***************************************************************************)
(* The album art size over the windows the container can have: none (the   *)
(* widget has no gdk::Window yet) or one of WindowSizes.  Only the actions *)
(* that scale the album art or change what it is scaled from take part.    *)
(***************************************************************************)
StartupWindows == {None} \cup {Some(size) : size \in WindowSizes}

InitArt ==
    /\ mpd \in InitDaemons
    /\ idlePending = FALSE
    /\ inputs = 0
    /\ listener = "waiting"
    /\ waits = [ok |-> 0, err |-> 0, conn |-> ListenerConn]
    /\ channel = <<>>
    /\ phase = "idle"
    /\ cur = NoEvent
    /\ calls = <<>>
    /\ crashed = "none"
    /\ window \in StartupWindows
    /\ headerTitle = StartupViewIn(mpd, window).title
    /\ songText = StartupViewIn(mpd, window).text
    /\ albumArt = StartupViewIn(mpd, window).art
    /\ queueModel = StartupViewIn(mpd, window).queue
    /\ searchModel = <<>>
    /\ attempts = [p \in Producers |-> 0]
    /\ sent = [p \in Producers |-> 0]
    /\ taken = [p \in Producers |-> 0]

NextArt ==
    \/ ConfigureEvent
    \/ ListenerNotify
    \/ OtherClient
    \/ Receive
    \/ HandleMpdEvent
    \/ HandleWindowResizeEvent

SpecArt == InitArt /\ [][NextArt]_vars

(***************************************************************************)
(* Steps and states the properties below speak of.                         *)
(***************************************************************************)
\* The step that runs the match arm for an event of this kind.
HandleStep(kind) ==
    /\ Handling(kind)
    /\ phase' = "idle" \/ crashed' = "event_loop"

\* The event loop has run the arm for cur to its end.
Handled(kind) == cur.kind = kind /\ phase = "idle"
\* The event loop panicked in the arm for cur.
Panicked(kind) == cur.kind = kind /\ crashed = "event_loop"

FailedCalls(cs) == {i \in 1..Len(cs) : ~cs[i].ok}
CallsOf(cs, op) == {i \in 1..Len(cs) : cs[i].op = op}
FilenamesIn(model) == {model[i].filename : i \in 1..Len(model)}
Range(seq) == {seq[i] : i \in 1..Len(seq)}
FromProducer(p) == {i \in 1..Len(channel) : channel[i].prod = p}

(***************************************************************************)
(* Properties.                                                             *)
(***************************************************************************)

\* C1: when the delete call of a QueueDeleteRequest fails, the event loop
\* does not crash, stays able to take the next event, and the queue model is
\* what it was before the event was handled.
C1_FailedDequeueRecovered ==
    [][(HandleStep("QueueDeleteRequest") /\ FailedCalls(calls') # {})
          => (crashed' = "none" /\ phase' = "idle" /\ queueModel' = queueModel)]_vars

\* C2: a search call is made only while handling a QueryUpdateEvent whose
\* text is longer than 2 (String::len, the UTF-8 length); a text of length
\* <= 2 leads to no search call.
C2_SearchOnlyForLongText ==
    CallsOf(calls, "search") # {}
        => (cur.kind = "QueryUpdateEvent" /\ StrLen(cur.text) > 2)

\* C2 happens: a QueryUpdateEvent with a text of length <= 2 was handled.
C2_ShortTextHandled ==
    /\ Handled("QueryUpdateEvent")
    /\ StrLen(cur.text) <= 2
    /\ calls = <<>>

\* C3: after a MpdEvent handled with no failing call, the queue model has
\* the length of the sequence queue() returned, row k holds the k-th song
\* returned, and its index is its position counted from 0.
C3_QueueModelMatchesQueueCall ==
    (Handled("MpdEvent") /\ CallsOf(calls, "queue") # {} /\ FailedCalls(calls) = {})
        => LET res == calls[CHOOSE i \in CallsOf(calls, "queue") : TRUE].res IN
           /\ Len(queueModel) = Len(res)
           /\ \A k \in 1..Len(res) :
                 /\ queueModel[k].filename = res[k]
                 /\ queueModel[k].index = k - 1

\* C3 happens: a MpdEvent was handled with success and queue() returned
\* two songs.
C3_TwoSongQueueRefreshed ==
    /\ Handled("MpdEvent")
    /\ FailedCalls(calls) = {}
    /\ \E i \in CallsOf(calls, "queue") : Len(calls[i].res) >= 2

\* C4: the event the loop begins to handle is the oldest message of its
\* producer that it has not handled yet: of two messages of one producer the
\* one sent first is handled first, whatever other producers sent between.
C4_PerProducerOrder ==
    [][(phase = "idle" /\ phase' = "handling")
          => cur'.seq = taken[cur'.prod] + 1]_vars

\* C4 happens: a message of a producer is being handled while a later
\* message of the same producer waits behind one of another producer.
C4_InterleavedProducers ==
    /\ phase = "handling"
    /\ \E i \in FromProducer(cur.prod) :
          \E j \in 1..(i - 1) : channel[j].prod # cur.prod

\* C5: handling a WindowResizeEvent leaves the header title, the song text,
\* the queue model and the search model as they were.
C5_ResizeChangesOnlyArtwork ==
    [][HandleStep("WindowResizeEvent")
          => /\ headerTitle' = headerTitle
             /\ songText' = songText
             /\ queueModel' = queueModel
             /\ searchModel' = searchModel]_vars

\* C5 happens: a WindowResizeEvent was handled and the artwork was scaled
\* for a window that is not the default one.
C5_ArtworkRescaled ==
    /\ Handled("WindowResizeEvent")
    /\ FailedCalls(calls) = {}
    /\ IsSome(albumArt)
    /\ albumArt[1].width # AlbumArtSize(DefaultWindow)

\* C6: handling a QueryUpdateEvent whose text is longer than 2 makes one
\* search call, with that text, and afterwards the search model holds the
\* songs that call returned and nothing else.
C6_SearchReplacesResults ==
    ((Handled("QueryUpdateEvent") \/ Panicked("QueryUpdateEvent")) /\ StrLen(cur.text) > 2)
        => /\ Len(calls) = 1
           /\ calls[1].op = "search"
           /\ calls[1].text = cur.text
           /\ Len(searchModel) = Len(calls[1].res)
           /\ FilenamesIn(searchModel) = Range(calls[1].res)

\* C6 happens: a search was handled that returned two songs, after an
\* earlier event of the UI.
C6_SearchHandled ==
    /\ Handled("QueryUpdateEvent")
    /\ StrLen(cur.text) > 2
    /\ cur.seq > 1
    /\ Len(searchModel) >= 2

\* C7: a failing daemon call never crashes the event loop, and is the last
\* call made for its event.
C7_FailedCallNeverCrashes ==
    FailedCalls(calls) # {}
        => (crashed # "event_loop" /\ FailedCalls(calls) = {Len(calls)})

\* C8: handling a MpdEvent runs the refresh (update: artwork, then queue)
\* exactly when header_title succeeded; a refresh none of whose calls fails
\* leaves the queue model holding the daemon's queue; when header_title
\* fails nothing of the widgets' data changes, no further call is made, no
\* message is sent and the loop goes on.
C8_RefreshIffTitleDerived ==
    [][HandleStep("MpdEvent")
          => LET derived == Len(calls') >= 2 /\ calls'[1].ok /\ calls'[2].ok IN
             /\ calls'[1].op = "status"
             /\ derived <=> Len(calls') > 2
             /\ (derived /\ FailedCalls(calls') = {})
                   => /\ calls'[Len(calls')].op = "queue"
                      /\ CallsOf(calls', "currentsong") # {}
                      /\ FilenamesIn(queueModel') = Range(mpd.queue)
                      /\ Len(queueModel') = Len(mpd.queue)
             /\ ~derived
                   => /\ FailedCalls(calls') = {Len(calls')}
                      /\ viewVars' = viewVars
                      /\ channel' = channel
                      /\ crashed' = "none"
                      /\ phase' = "idle"]_vars

\* C8 happens: a MpdEvent was handled whose header_title failed.
C8_EventDropped ==
    /\ Handled("MpdEvent")
    /\ FailedCalls(calls) # {}
    /\ crashed = "none"

\* C9: while an event is being handled no other event is taken from the
\* channel: the event in hand stays the same and no message leaves the
\* channel until its arm has run to the end.
C9_OneEventAtATime ==
    [][phase = "handling"
          => /\ cur' = cur
             /\ Len(channel') >= Len(channel)
             /\ taken' = taken]_vars

\* C9 happens: an event is being handled while another waits in the channel.
C9_EventWaitsBehindHandling ==
    /\ phase = "handling"
    /\ channel # <<>>

\* The producer's context has ended in a panic.
ProducerFailed(p) == IF p = "ui" THEN crashed = "ui" ELSE listener = "panicked"

\* C10: every try_send attempt either put its message in the channel, where
\* it stays until the event loop takes it, or failed and ended its producer;
\* no message is lost.
C10_NoSilentDrop ==
    \A p \in Producers :
        /\ sent[p] = taken[p] + Cardinality(FromProducer(p))
        /\ attempts[p] = sent[p] \/ (ProducerFailed(p) /\ attempts[p] = sent[p] + 1)

\* C10 happens: a try_send on a full channel failed and ended the UI.
C10_FullChannelFatal ==
    /\ crashed = "ui"
    /\ attempts["ui"] = sent["ui"] + 1
    /\ Len(channel) > ChannelBuffer

\* C11: the listener sends one MpdEvent for each Ok return of conn.wait and
\* none otherwise, and once a wait has returned Err it makes no further
\* wait call and sends no further message.
C11_ListenerOneEventPerReturn ==
    [][/\ attempts'["listener"] - attempts["listener"] = waits'.ok - waits.ok
       /\ sent'["listener"] - sent["listener"] = waits'.ok - waits.ok
       /\ waits'.ok - waits.ok \in {0, 1}
       /\ waits.err >= 1
            => /\ waits' = waits
               /\ attempts'["listener"] = attempts["listener"]
               /\ listener' = "exited"]_vars

\* C11 happens: the listener sent an event, then its wait failed, and a
\* later Player change is left unreported.
C11_ListenerEndedAfterFailure ==
    /\ listener = "exited"
    /\ waits.ok >= 1
    /\ waits.err = 1
    /\ idlePending

\* Who has issued a call on which connection: the listener thread its wait
\* (outstanding whenever the thread is waiting), the event loop the calls of
\* the event it handles.
ConnUsers ==
    {[context |-> "listener", conn |-> waits.conn]}
        \cup {[context |-> "event_loop", conn |-> calls[i].conn] : i \in 1..Len(calls)}

\* C12: no connection to the daemon is used by two execution contexts: the
\* calls of the event loop never go to the connection on which the listener
\* thread waits, so no connection ever has two calls outstanding.
C12_ConnectionsNotShared ==
    /\ \A a \in ConnUsers : \A b \in ConnUsers :
            a.conn = b.conn => a.context = b.context
    /\ \A a \in ConnUsers : a.conn \in {ListenerConn, LoopConn}

\* C12 happens: the event loop has made several calls while the listener's
\* wait was outstanding.
C12_BothContextsCalling ==
    /\ listener = "waiting"
    /\ waits.ok >= 1
    /\ Len(calls) >= 2

\* C13: handling a PlaybackStateChange(action) issues exactly one daemon
\* call, the transport call of that action (Start: play, Stop: stop, Pause:
\* pause, SkipBackwards: prev, SkipForwards: next), whether the call
\* succeeds or fails: no other command and no second attempt.
C13_OneMatchingTransportCall ==
    (Handled("PlaybackStateChange") \/ Panicked("PlaybackStateChange"))
        => /\ Len(calls) = 1
           /\ <<cur.action, calls[1].op>> \in
                 {<<"Start", "play">>, <<"Stop", "stop">>, <<"Pause", "pause">>,
                  <<"SkipBackwards", "prev">>, <<"SkipForwards", "next">>}

\* C13 happens: a skip forwards was handled and the daemon moved on to the
\* second song of its queue.
C13_SkippedForwards ==
    /\ Handled("PlaybackStateChange")
    /\ cur.action = "SkipForwards"
    /\ Len(calls) = 1
    /\ calls[1].ok
    /\ mpd.song = 2

\* C13 fails once too: a skip on a stopped daemon was refused and not retried.
C13_RefusedSkipNotRetried ==
    /\ Panicked("PlaybackStateChange")
    /\ cur.action = "SkipBackwards"
    /\ Len(calls) = 1
    /\ ~calls[1].ok

\* C14: when a MpdEvent is handled with no failing call and the daemon has a
\* current song, the header title afterwards shows the daemon's playback
\* state and the song's title and artist, and the song text shows the same
\* title and artist.
C14_NowPlayingShowsDaemonState ==
    [][(HandleStep("MpdEvent") /\ FailedCalls(calls') = {} /\ IsSome(CurrentSong(mpd)))
          => LET song == CurrentSong(mpd)[1] IN
             /\ <<mpd.state, headerTitle'[1]>> \in
                   {<<"Play", "[PLAYING]">>, <<"Pause", "[PAUSED]">>,
                    <<"Stop", "[STOPPED]">>}
             /\ IsSome(song.title)
                   => (headerTitle'[2] = song.title[1] /\ songText'[1] = song.title[1])
             /\ IsSome(song.artist)
                   => (headerTitle'[3] = song.artist[1] /\ songText'[2] = song.artist[1])]_vars

\* C14 happens: a MpdEvent was handled with success while the daemon played
\* "Aqualung" by "Jethro Tull".
C14_AqualungPlaying ==
    /\ Handled("MpdEvent")
    /\ FailedCalls(calls) = {}
    /\ Len(calls) > 2
    /\ headerTitle = <<"[PLAYING]", "Aqualung", "Jethro Tull">>
    /\ songText[1] = "Aqualung"
    /\ songText[2] = "Jethro Tull"

\* C15: the header title, song text, artwork, queue model and search model
\* change only in steps of the event loop handling an event; a step in which
\* the listener thread or a UI callback acts changes none of them, makes no
\* daemon call and at most appends messages to the channel.
C15_OnlyEventLoopChangesView ==
    [][/\ viewVars' # viewVars
            => /\ phase = "handling"
               /\ attempts' = attempts
               /\ waits' = waits
       /\ (attempts' # attempts \/ waits' # waits)
            => /\ viewVars' = viewVars
               /\ UNCHANGED <<mpd, calls, cur, phase>>
               /\ Len(channel') >= Len(channel)
               /\ \A i \in 1..Len(channel) : channel'[i] = channel[i]]_vars

\* C15 happens: messages of the listener and of a UI callback wait in the
\* channel and the event loop has not taken any yet.
C15_ProducersOnlyEnqueued ==
    /\ FromProducer("ui") # {}
    /\ FromProducer("listener") # {}
    /\ taken = [p \in Producers |-> 0]
    /\ \E i \in FromProducer("ui") : channel[i].kind = "QueueDeleteRequest"

\* A QueryUpdateEvent with a text longer than 2 was handled and its search
\* call succeeded.
SearchSucceeded ==
    /\ Handled("QueryUpdateEvent")
    /\ StrLen(cur.text) > 2
    /\ Len(calls) = 1
    /\ calls[1].ok

\* C16: after a successful search the search model lists the songs in the
\* order the search call returned them: row k holds the k-th song returned.
C16_SearchOrderAsReturned ==
    SearchSucceeded
        => /\ Len(searchModel) = Len(calls[1].res)
           /\ \A k \in 1..Len(calls[1].res) :
                 searchModel[k].filename = calls[1].res[k]

\* C16, amended: after a successful search the search model lists the songs
\* in the reverse of the order the search call returned them: row k holds
\* the k-th song counted from the last one returned.
C16_SearchOrderReversed ==
    SearchSucceeded
        => /\ Len(searchModel) = Len(calls[1].res)
           /\ \A k \in 1..Len(calls[1].res) :
                 searchModel[k].filename = calls[1].res[Len(calls[1].res) - k + 1]

\* C16 happens: a search returned two different songs and was handled.
C16_TwoSongsFound ==
    /\ SearchSucceeded
    /\ Len(calls[1].res) = 2
    /\ calls[1].res[1] # calls[1].res[2]
    /\ Len(searchModel) = 2

\* The calls a step makes: those of the event whose handling it ends.
CallsOfStep ==
    IF phase = "handling" /\ (phase' = "idle" \/ crashed' = "event_loop")
    THEN calls' ELSE <<>>

\* C17: the queue model always equals the result of the latest successful
\* queue call and the search model holds the result of the latest successful
\* search call: a step with a successful call leaves the model holding that
\* call's result, and any other step, one with a failing queue or search
\* call included, leaves the model as it was.
C17_ViewHoldsLastFetched ==
    [][LET cs == CallsOfStep
           queueOk == {i \in CallsOf(cs, "queue") : cs[i].ok}
           searchOk == {i \in CallsOf(cs, "search") : cs[i].ok}
       IN  /\ \A i \in queueOk :
                 [k \in 1..Len(queueModel') |-> queueModel'[k].filename] = cs[i].res
           /\ queueOk = {} => queueModel' = queueModel
           /\ \A i \in searchOk :
                 /\ Len(searchModel') = Len(cs[i].res)
                 /\ FilenamesIn(searchModel') = Range(cs[i].res)
           /\ searchOk = {} => searchModel' = searchModel]_vars

\* C18: after a MpdEvent handled with no failing call for which the daemon
\* reported no current song (the header title then says so), the song text
\* and the artwork are absent: nothing of an earlier song is left on show.
C18_NoSongShowsNothing ==
    (/\ Handled("MpdEvent")
     /\ FailedCalls(calls) = {}
     /\ CallsOf(calls, "queue") # {}
     /\ headerTitle = NoSongTitle)
        => (songText = <<>> /\ albumArt = None)

\* The artwork is square and its side is half the lesser of the window's
\* width and height, rounded down, or 128 when there is no window.
ArtFitsWindow(art, win) ==
    IsSome(art)
        => LET side == art[1].width IN
           /\ art[1].height = side
           /\ IF IsSome(win)
              THEN LET least == Min(win[1].w, win[1].h) IN
                   2 * side <= least /\ least < 2 * side + 2
              ELSE side = 128

\* C19: whenever the album art is scaled, at startup or while handling a
\* MpdEvent or a WindowResizeEvent, it is scaled to a square whose side is
\* floor(min(width, height) / 2) of the window at that moment, and to 128
\* when the container has no window.
C19_ArtSizeHalfLeastDimension ==
    /\ ArtFitsWindow(albumArt, window)
    /\ [][((HandleStep("MpdEvent") \/ HandleStep("WindowResizeEvent"))
             /\ \E i \in CallsOf(calls', "albumart") : calls'[i].ok)
            => ArtFitsWindow(albumArt', window)]_vars

\* C19 happens: the album art was scaled while handling an event with no
\* window known, and came out 128 wide.
C19_ScaledWithoutWindow ==
    /\ Handled("MpdEvent")
    /\ FailedCalls(calls) = {}
    /\ window = None
    /\ IsSome(albumArt)
    /\ albumArt[1].width = 128

\* C19 happens too: the album art was scaled for a window higher than wide.
C19_ScaledForTallWindow ==
    /\ Handled("WindowResizeEvent")
    /\ FailedCalls(calls) = {}
    /\ IsSome(window)
    /\ window[1].w < window[1].h
    /\ IsSome(albumArt)
    /\ albumArt[1].width = 150

QueueRequests == {"QueueAddRequest", "QueueDeleteRequest"}

\* The message is the MpdEvent the UI sent as message number seq.
SyntheticMpdEvent(msg, seq) ==
    msg.kind = "MpdEvent" /\ msg.prod = "ui" /\ msg.seq = seq

\* The UI's queue request `req` has its MpdEvent: the UI's next message is
\* a MpdEvent waiting in the channel from position `from` on, or being
\* handled.  The one exception is the request whose MpdEvent the full
\* channel refused, which ended the process.
FollowedByRefresh(req, from) ==
    \/ \E j \in from..Len(channel) : SyntheticMpdEvent(channel[j], req.seq + 1)
    \/ SyntheticMpdEvent(cur, req.seq + 1)
    \/ crashed = "ui" /\ sent["ui"] = req.seq /\ attempts["ui"] = req.seq + 1

\* Every queue request in the channel or in the loop's hands has its
\* MpdEvent behind it, every MpdEvent of the UI has a queue request before
\* it, and the messages of the UI wait in the order they were sent.
RefreshFollowsRequest ==
    /\ \A i \in FromProducer("ui") :
          /\ channel[i].kind \in QueueRequests => FollowedByRefresh(channel[i], i + 1)
          /\ channel[i].kind = "MpdEvent"
                => \/ \E h \in 1..(i - 1) :
                         /\ channel[h].kind \in QueueRequests
                         /\ channel[h].prod = "ui"
                         /\ channel[h].seq = channel[i].seq - 1
                   \/ taken["ui"] = channel[i].seq - 1 /\ cur.kind \in QueueRequests
          /\ \A j \in FromProducer("ui") : i < j => channel[i].seq < channel[j].seq
    /\ (cur.kind \in QueueRequests /\ cur.prod = "ui") => FollowedByRefresh(cur, 1)

\* C20: both queue callbacks send a MpdEvent right after their request, on
\* the same Sender clone, so the event loop takes the request, issues its one
\* daemon command (delete or push_str), and only then takes that MpdEvent;
\* when that MpdEvent is handled with no failing call, the queue model holds
\* the daemon's queue as it is then, after the command.
C20_RequestThenRefresh ==
    [][/\ RefreshFollowsRequest'
       /\ \A kind \in QueueRequests :
             HandleStep(kind)
                => /\ Len(calls') = 1
                   /\ calls'[1].op = (IF kind = "QueueAddRequest" THEN "push_str" ELSE "delete")
                   /\ FollowedByRefresh(cur, 1)
       /\ (phase = "idle" /\ phase' = "handling" /\ cur'.kind = "MpdEvent"
              /\ cur'.prod = "ui")
             => \/ cur.kind \in QueueRequests /\ cur.prod = "ui" /\ cur.seq = cur'.seq - 1
                \/ cur.prod = "listener" /\ taken["ui"] = cur'.seq - 1
       /\ (HandleStep("MpdEvent") /\ cur.prod = "ui" /\ FailedCalls(calls') = {}
              /\ CallsOf(calls', "queue") # {})
             => [k \in 1..Len(queueModel') |-> queueModel'[k].filename] = mpd.queue]_vars

\* C20 happens: a remove click's request was handled after an event of the
\* listener, its delete emptied the daemon's queue, and the MpdEvent sent
\* with it was then handled and emptied the queue model.
C20_RemoveThenRefreshed ==
    /\ Handled("MpdEvent")
    /\ cur.prod = "ui"
    /\ cur.seq = 2
    /\ taken["listener"] >= 1
    /\ FailedCalls(calls) = {}
    /\ CallsOf(calls, "queue") # {}
    /\ mpd.queue = <<>>
    /\ queueModel = <<>>

\* The songs the daemon finds for a text, as a set of file names.
FoundFor(text) == {SearchSongs(text)[i].file : i \in 1..Len(SearchSongs(text))}

\* C21: the search model always holds the result of the search for the last
\* text longer than 2 among the QueryUpdateEvents handled so far, taken in
\* the order the UI sent them: a handled text longer than 2 whose search
\* succeeds replaces the results by its own, and a shorter text, like every
\* other event, leaves the results of the last search in place.
C21_LatestSearchWins ==
    [][/\ (HandleStep("QueryUpdateEvent") /\ FailedCalls(calls') = {})
            => /\ StrLen(cur.text) > 2
                    => /\ FilenamesIn(searchModel') = FoundFor(cur.text)
                       /\ Len(searchModel') = Cardinality(FoundFor(cur.text))
               /\ StrLen(cur.text) <= 2 => searchModel' = searchModel
       /\ ~HandleStep("QueryUpdateEvent") => searchModel' = searchModel
       /\ (phase = "idle" /\ phase' = "handling" /\ cur'.kind = "QueryUpdateEvent")
            => cur'.seq = taken["ui"] + 1]_vars

\* C21 happens: a search, then a text too short to search for, were handled
\* and the results of the search are still on show.
C21_ShortTextKeepsLatest ==
    /\ Handled("QueryUpdateEvent")
    /\ StrLen(cur.text) <= 2
    /\ cur.seq >= 2
    /\ Len(searchModel) >= 2

\* C21 happens too: two searches were handled one after the other and the
\* results are those of the second.
C21_SecondSearchReplacedFirst ==
    /\ Handled("QueryUpdateEvent")
    /\ cur.text = TextEb
    /\ cur.seq = 2
    /\ inputs = 2
    /\ FilenamesIn(searchModel) = FoundFor(TextEb)
    /\ FoundFor(TextEb) # FoundFor(TextAbc)

\* The shown text is the tag, or "[Unknown]" when the song has no such tag.
ShowsTagOrUnknown(shown, tag) == shown = (IF IsSome(tag) THEN tag[1] ELSE "[Unknown]")

\* Every row of the list store shows its song's title, artist and album, or
\* "[Unknown]" in place of a missing one.
RowsShowUnknown(model) ==
    \A k \in 1..Len(model) :
        LET song == SongOfFile(model[k].filename) IN
        /\ ShowsTagOrUnknown(model[k].title, song.title)
        /\ ShowsTagOrUnknown(model[k].artist, song.artist)
        /\ ShowsTagOrUnknown(model[k].album, song.album)

\* C22: whatever is shown of a song that lacks a title, an artist or an
\* album shows "[Unknown]" for the missing tag: the header title and the
\* song text after a MpdEvent handled with no failing call, and every row
\* of the queue model and of the search model.
C22_MissingTagShowsUnknown ==
    [][/\ RowsShowUnknown(queueModel')
       /\ RowsShowUnknown(searchModel')
       /\ (HandleStep("MpdEvent") /\ FailedCalls(calls') = {}
              /\ CallsOf(calls', "queue") # {} /\ IsSome(CurrentSong(mpd)))
            => LET song == CurrentSong(mpd)[1] IN
               /\ ShowsTagOrUnknown(headerTitle'[2], song.title)
               /\ ShowsTagOrUnknown(headerTitle'[3], song.artist)
               /\ ShowsTagOrUnknown(songText'[1], song.title)
               /\ ShowsTagOrUnknown(songText'[2], song.artist)
               /\ ShowsTagOrUnknown(songText'[3], song.album)]_vars

\* C23: a refresh is idempotent.  From every state, whatever the widgets
\* hold, if the MpdEvent arm runs twice with success on an unchanged daemon
\* and window, the second run leaves the widgets' data exactly as the first
\* left it; the same for two runs of the WindowResizeEvent arm.
C23_RefreshIdempotent ==
    LET m1 == ArmMpdEvent(mpd, MaxCalls, View, window, MpdEvent)
        m2 == ArmMpdEvent(m1.mpd, MaxCalls, m1.v, window, MpdEvent)
        r1 == ArmWindowResizeEvent(mpd, MaxCalls, View, window, WindowResizeEvent)
        r2 == ArmWindowResizeEvent(r1.mpd, MaxCalls, r1.v, window, WindowResizeEvent)
    IN  /\ (m1.ok /\ m2.ok) => (m2.v = m1.v /\ m2.mpd = mpd)
        /\ (r1.ok /\ r2.ok) => (r2.v = r1.v /\ r2.mpd = mpd)

\* C23 happens: the MpdEvent of a remove click and then the MpdEvent of the
\* listener were handled, with no change of the daemon between them, and
\* what the widgets show is what one more refresh would show.
C23_RefreshedTwiceInARow ==
    /\ Handled("MpdEvent")
    /\ cur.prod = "listener"
    /\ cur.seq = 1
    /\ taken["ui"] = 2
    /\ inputs = 2
    /\ FailedCalls(calls) = {}
    /\ CallsOf(calls, "queue") # {}
    /\ Len(queueModel) >= 1
    /\ ArmMpdEvent(mpd, MaxCalls, View, window, MpdEvent).v = View

\* C24: every message a try_send has put in the channel is taken and handled
\* by the event loop, whether the calls of the handling return a result or
\* an error.  In the form of a finished run: when nothing more can happen,
\* and no producer's panic has ended the process, no message is left in the
\* channel and the event taken last has been handled to the end of its arm.
C24_EveryEventHandled ==
    (~ENABLED Next /\ crashed # "ui")
        => /\ channel = <<>>
           /\ phase = "idle"
           /\ \A p \in Producers : taken[p] = sent[p]

\* The events whose arm is a daemon command only.
CommandKinds == {"QueueAddRequest", "QueueDeleteRequest", "PlaybackStateChange"}

\* C25: handling a QueueAddRequest, a QueueDeleteRequest, a
\* PlaybackStateChange, or a QueryUpdateEvent whose text is not longer than
\* 2 leaves the header title, song text, artwork, queue model and search
\* model as they were, whether its call succeeds or fails; and the queue
\* model changes only in a step that handles a MpdEvent.
C25_CommandsLeaveViewAlone ==
    [][/\ (\E kind \in CommandKinds : HandleStep(kind)) => viewVars' = viewVars
       /\ (HandleStep("QueryUpdateEvent") /\ StrLen(cur.text) <= 2)
            => viewVars' = viewVars
       /\ queueModel' # queueModel => HandleStep("MpdEvent")]_vars

\* C25 happens: a delete was handled and accepted by the daemon, and the
\* queue model still lists the song the daemon no longer has.
C25_DeletedSongStillListed ==
    /\ Handled("QueueDeleteRequest")
    /\ FailedCalls(calls) = {}
    /\ Len(calls) = 1
    /\ Len(queueModel) = Len(mpd.queue) + 1
    /\ inputs = 1

\* The event loop can run the arm of the event it has in hand.
CanHandle ==
    ENABLED (\/ HandleMpdEvent \/ HandleWindowResizeEvent \/ HandleQueryUpdateEvent
             \/ HandleQueueDeleteRequest \/ HandleQueueAddRequest
             \/ HandlePlaybackStateChange)

\* C26: once the listener thread has ended after a failed wait, the event
\* loop goes on as before: it takes the next message whenever one waits, runs
\* the arm of the event it has taken, the UI's messages wait in the order
\* they were sent, and a MpdEvent sent by a UI callback whose header_title
\* succeeds still runs the refresh.
C26_LoopOutlivesListener ==
    (listener = "exited" /\ crashed = "none")
        => /\ (phase = "idle" /\ channel # <<>>) => ENABLED Receive
           /\ phase = "handling" => CanHandle
           /\ \A i \in FromProducer("ui") : \A j \in FromProducer("ui") :
                 i < j => channel[i].seq < channel[j].seq
           /\ \A i \in FromProducer("ui") : channel[i].seq > taken["ui"]
           /\ (Handled("MpdEvent") /\ cur.prod = "ui" /\ Len(calls) >= 2
                  /\ calls[1].ok /\ calls[2].ok)
                => (Len(calls) > 2 /\ CallsOf(calls, "queue") # {})

\* C26 happens: the listener ended at its first wait without ever sending
\* an event, and the MpdEvent of a remove click was handled and refreshed
\* the queue model.
C26_RefreshedWithoutListener ==
    /\ listener = "exited"
    /\ waits.ok = 0
    /\ Handled("MpdEvent")
    /\ cur.prod = "ui"
    /\ cur.seq = 2
    /\ FailedCalls(calls) = {}
    /\ CallsOf(calls, "queue") # {}
    /\ [k \in 1..Len(queueModel) |-> queueModel[k].filename] = mpd.queue

====
